---- MODULE Spec2Model ----
(***************************************************************************)
(* Model of the execution/control core of AI-BUG-HUNTER:                   *)
(*   main.py              PentestAutomation (the control loop)             *)
(*   command_executer.py  CommandExecutor (validator, runner, filter,      *)
(*                        script materializer)                             *)
(*   ai.py                AICyberSecurityAssistant (decoder, oracle call)  *)
(* Texts are sequences of one-character strings, so that concatenation,    *)
(* slicing, stripping and pattern matching are computed as the code        *)
(* computes them.                                                          *)
(***************************************************************************)
EXTENDS Integers, Sequences, FiniteSets, TLC

(***************************************************************************)
(* Bounds of the model.                                                    *)
(***************************************************************************)
\* The loop's iteration cap (main.py:28 sets 50), scaled down.
max_iterations == 2

(***************************************************************************)
(* Characters and text helpers.                                            *)
(***************************************************************************)
Lowers == <<"a","b","c","d","e","f","g","h","i","j","k","l","m",
            "n","o","p","q","r","s","t","u","v","w","x","y","z">>
Uppers == <<"A","B","C","D","E","F","G","H","I","J","K","L","M",
            "N","O","P","Q","R","S","T","U","V","W","X","Y","Z">>
Digits == {"0","1","2","3","4","5","6","7","8","9"}
OctalDigits == {"0","1","2","3","4","5","6","7"}
\* Letters outside ASCII that Python's str regexes count as \w.
NonAsciiWord == {"é"}
\* The backtick character (U+0060), which a TLA+ string cannot hold.
Backtick == "<U+0060>"

Range(s) == {s[i] : i \in DOMAIN s}

\* The regex class \s on the characters of the model.
IsSpace(c) == c \in {" ", "\t", "\n", "\r"}

\* The regex class \w of a Python 3 str pattern (Unicode aware).
IsWordChar(c) == c \in Range(Lowers) \cup Range(Uppers) \cup Digits \cup {"_"} \cup NonAsciiWord

\* Case folding of one character, as re.IGNORECASE compares them.
LowerChar(c) ==
    IF \E i \in DOMAIN Uppers : Uppers[i] = c
    THEN Lowers[CHOOSE i \in DOMAIN Uppers : Uppers[i] = c]
    ELSE c

LowerText(s) == [i \in DOMAIN s |-> LowerChar(s[i])]

\* s[:n]
Take(s, n) == IF Len(s) <= n THEN s ELSE SubSeq(s, 1, n)

\* s[-n:] for n > 0
Tail_n(s, n) == IF Len(s) <= n THEN s ELSE SubSeq(s, Len(s) - n + 1, Len(s))

\* str.strip(chars): drop the leading and trailing characters that are in cs.
StripSet(s, cs) ==
    IF \A i \in DOMAIN s : s[i] \in cs THEN <<>>
    ELSE LET lo == CHOOSE i \in DOMAIN s :
                       s[i] \notin cs /\ \A j \in 1..(i - 1) : s[j] \in cs
             hi == CHOOSE i \in DOMAIN s :
                       s[i] \notin cs /\ \A j \in (i + 1)..Len(s) : s[j] \in cs
         IN  SubSeq(s, lo, hi)

\* str.strip()
Strip(s) == StripSet(s, {" ", "\t", "\n", "\r"})

\* lit occurs in s at position i
At(s, i, lit) ==
    /\ i >= 1
    /\ i + Len(lit) - 1 <= Len(s)
    /\ \A k \in DOMAIN lit : s[i + k - 1] = lit[k]

\* s[a..b] is a non-empty run of whitespace
SpaceRun(s, a, b) ==
    /\ a <= b
    /\ a >= 1
    /\ b <= Len(s)
    /\ \A k \in a..b : IsSpace(s[k])

\* re.search(lit, s)
HasLit(s, lit) == \E i \in DOMAIN s : At(s, i, lit)

\* re.search(a \s+ b, s)
HasLitSpaceLit(s, a, b) ==
    \E i \in DOMAIN s :
        /\ At(s, i, a)
        /\ \E j \in (i + Len(a) + 1)..Len(s) :
            /\ SpaceRun(s, i + Len(a), j - 1)
            /\ At(s, j, b)

\* re.search(a \s+, s)
HasLitSpace(s, a) ==
    \E i \in DOMAIN s : At(s, i, a) /\ SpaceRun(s, i + Len(a), i + Len(a))

\* re.search(a \s+ .* c, s): '.' does not match a newline
HasLitSpaceAnyChar(s, a, c) ==
    \E i \in DOMAIN s :
        /\ At(s, i, a)
        /\ \E j \in (i + Len(a))..Len(s) :
            /\ SpaceRun(s, i + Len(a), j)
            /\ \E k \in (j + 1)..Len(s) :
                /\ s[k] = c
                /\ \A m \in (j + 1)..(k - 1) : s[m] # "\n"

\* re.search(chmod \s+ [0-7]{3,4} \s+, s)
HasChmodMode(s) ==
    \E i \in DOMAIN s :
        /\ At(s, i, <<"c","h","m","o","d">>)
        /\ \E j \in (i + 6)..Len(s) : \E n \in {3, 4} :
            /\ SpaceRun(s, i + 5, j - 1)
            /\ j + n <= Len(s)
            /\ \A k \in j..(j + n - 1) : s[k] \in OctalDigits
            /\ IsSpace(s[j + n])

(***************************************************************************)
(* CommandExecutor.sanitize_filename                                       *)
(***************************************************************************)
\* os.path.basename on POSIX: what follows the last '/'.
basename(filename) ==
    LET slashes == {i \in DOMAIN filename : filename[i] = "/"}
    IN  IF slashes = {} THEN filename
        ELSE LET last == CHOOSE i \in slashes : \A j \in slashes : j <= i
             IN  SubSeq(filename, last + 1, Len(filename))

sanitize_filename(filename) ==
    LET base_name == basename(filename)
        safe_name == [i \in DOMAIN base_name |->
                        IF IsWordChar(base_name[i]) \/ base_name[i] \in {".", "-", "_"}
                        THEN base_name[i] ELSE "_"]
    IN  Take(safe_name, 100)

(***************************************************************************)
(* CommandExecutor.validate_command                                        *)
(***************************************************************************)
validate_command(command) ==
    \A s \in {LowerText(command)} :
        ~ \/ HasLitSpaceLit(s, <<"r","m">>, <<"-","r","f">>)
              \/ HasLit(s, <<":","(",")","{">>)
              \/ HasChmodMode(s)
              \/ HasLitSpaceAnyChar(s, <<"w","g","e","t">>, "|")
              \/ HasLitSpaceAnyChar(s, <<"c","u","r","l">>, "|")
              \/ HasLit(s, <<"m","k","f","s">>)
              \/ HasLitSpaceAnyChar(s, <<"d","d">>, "=")
              \/ HasLit(s, <<">","/","d","e","v","/","s","d">>)
              \/ HasLitSpace(s, <<"m","o","u","n","t">>)
              \/ HasLitSpace(s, <<"u","m","o","u","n","t">>)

(***************************************************************************)
(* shlex.split, for command lines without quotes or escapes (none occurs   *)
(* in the command lines of this model): the whitespace-separated words.    *)
(***************************************************************************)
RECURSIVE SplitWords(_, _, _)
SplitWords(s, i, word) ==
    IF i > Len(s)
    THEN IF word = <<>> THEN <<>> ELSE <<word>>
    ELSE IF IsSpace(s[i])
         THEN IF word = <<>> THEN SplitWords(s, i + 1, <<>>)
              ELSE <<word>> \o SplitWords(s, i + 1, <<>>)
         ELSE SplitWords(s, i + 1, Append(word, s[i]))

shlex_split(command) == SplitWords(command, 1, <<>>)

(***************************************************************************)
(* Fixed texts of the program.                                             *)
(***************************************************************************)
TargetPrefix == <<"T","a","r","g","e","t",":"," ">>
GuidePrefix == <<"\n","A","d","d","i","t","i","o","n","a","l"," ","c","o","n","t","e","x","t",":"," ">>
NoGuidance == <<"N","o"," ","a","d","d","i","t","i","o","n","a","l"," ","g","u","i","d","a","n","c","e">>
LastCommandOutput == <<"\n","L","a","s","t"," ","c","o","m","m","a","n","d"," ","o","u","t","p","u","t",":"," ">>
ErrorExecutingCommand == <<"E","r","r","o","r"," ","e","x","e","c","u","t","i","n","g"," ","c","o","m","m","a","n","d",":"," ">>
ErrorExecutingScript == <<"E","r","r","o","r"," ","e","x","e","c","u","t","i","n","g"," ","s","c","r","i","p","t",":"," ">>
RawOutputSavedTo == <<"(","R","a","w"," ","o","u","t","p","u","t"," ","s","a","v","e","d"," ","t","o"," ">>
StoppingAsRequested == <<"S","t","o","p","p","i","n","g"," ","a","s"," ","r","e","q","u","e","s","t","e","d",".">>
NoCommandToExecute == <<"N","o"," ","c","o","m","m","a","n","d"," ","t","o"," ","e","x","e","c","u","t","e",".">>
FilterTimedOut == <<"F","i","l","t","e","r"," ","c","o","m","m","a","n","d"," ","t","i","m","e","d"," ","o","u","t">>
FilterError == <<"F","i","l","t","e","r"," ","e","r","r","o","r",":"," ">>
UnsupportedScriptType == <<"E","r","r","o","r",":"," ","U","n","s","u","p","p","o","r","t","e","d"," ","s","c","r","i","p","t"," ","t","y","p","e"," ">>
CommandOutputsDir == <<"c","o","m","m","a","n","d","_","o","u","t","p","u","t","s">>
ScriptsDir == <<"s","c","r","i","p","t","s">>
DefaultOutputName == <<"o","u","t","p","u","t",".","t","x","t">>
DefaultScriptName == <<"a","i","_","s","c","r","i","p","t">>
Bash == <<"b","a","s","h">>
Python == <<"p","y","t","h","o","n">>
Python3 == <<"p","y","t","h","o","n","3">>

\* The context budget of the loop.
ContextBudget == 4000

(***************************************************************************)
(* The oracle's replies.  A reply is None, the empty text, a text that is  *)
(* not JSON, or a JSON object, possibly wrapped in a code fence.  A JSON   *)
(* object is a record of its fields; Absent marks a field the object does  *)
(* not have, NonString a value that is not a JSON string.                  *)
(* "continue" is "true"/"false" for the JSON booleans and                  *)
(* "str_true"/"str_false" for the JSON strings "true"/"false".             *)
(***************************************************************************)
Absent == <<"<absent>">>
NonString == <<"<number>">>
None == <<"<none>">>

Ls == <<"l","s">>
RmRf == <<"r","m"," ","-","r","f"," ","/">>
Mkfs == <<"m","k","f","s">>
Perl == <<"p","e","r","l">>

BaseCommand ==
    [type |-> "command", content |-> Ls, reason |-> "r", continue |-> "true",
     script_type |-> Absent, script_name |-> Absent,
     output_name |-> Absent, return_to_ai |-> Absent]

BaseScript ==
    [BaseCommand EXCEPT !.type = "script", !.content = <<"x">>,
                        !.script_type = Bash, !.script_name = <<"s">>]

\* Names and bodies that exercise sanitize_filename and str.strip.
DotDot == <<".", ".">>
AccentName == <<"\\", " ", ";", "_", "é">>
QuotedBody == <<Backtick, "x", Backtick>>

CommandPayloads ==
    {[BaseCommand EXCEPT !.continue = k, !.return_to_ai = f] :
        k \in {"true", "false"}, f \in {Absent, <<"f">>}}
    \cup {[BaseCommand EXCEPT !.content = c] : c \in {RmRf, <<Backtick>>}}
    \cup {[BaseCommand EXCEPT !.continue = "str_false"],
          [BaseCommand EXCEPT !.output_name = DotDot],
          [BaseCommand EXCEPT !.return_to_ai = RmRf]}

ScriptPayloads ==
    {[BaseScript EXCEPT !.continue = k] : k \in {"true", "false"}}
    \cup {[BaseScript EXCEPT !.script_type = Python],
          [BaseScript EXCEPT !.return_to_ai = <<"f">>],
          [BaseScript EXCEPT !.content = QuotedBody]}
    \cup {[BaseScript EXCEPT !.script_name = n] : n \in {Mkfs, <<>>, AccentName}}

RejectedPayloads ==
    {[BaseCommand EXCEPT !.type = "absent"],
     [BaseCommand EXCEPT !.content = Absent],
     [BaseCommand EXCEPT !.reason = "absent"],
     [BaseCommand EXCEPT !.continue = "absent"],
     [BaseCommand EXCEPT !.type = "other"],
     [BaseCommand EXCEPT !.content = NonString],
     [BaseScript EXCEPT !.script_type = Absent],
     [BaseScript EXCEPT !.script_type = Perl],
     [BaseScript EXCEPT !.script_name = Absent]}

Payloads == CommandPayloads \cup ScriptPayloads \cup RejectedPayloads

Replies ==
    {[kind |-> k, fenced |-> FALSE, data |-> BaseCommand] : k \in {"none", "empty", "malformed"}}
    \cup {[kind |-> "json", fenced |-> FALSE, data |-> d] : d \in Payloads}
    \cup {[kind |-> "json", fenced |-> TRUE, data |-> d] :
              d \in {BaseCommand, BaseScript, [BaseCommand EXCEPT !.content = Absent]}}

Targets == {<<>>, <<" ">>, <<"t">>}

\* A guidance text with which the first context is one character over the
\* context budget.
LongGuide ==
    [i \in 1..(ContextBudget + 1 - Len(TargetPrefix) - 1 - Len(GuidePrefix)) |->
        IF i = 1 THEN "G" ELSE "g"]

Guides == {<<>>, <<"g">>}

FilterOutcomes ==
    {[kind |-> "exit0", text |-> <<>>], [kind |-> "exit0", text |-> <<"k">>],
     [kind |-> "nonzero", text |-> <<"e">>],
     [kind |-> "timeout", text |-> <<>>],
     [kind |-> "exception", text |-> <<"e">>]}

(***************************************************************************)
(* AICyberSecurityAssistant: decoding.                                     *)
(***************************************************************************)
\* Strips the code fence markers of a reply.
clean_ai_response(raw) == [raw EXCEPT !.fenced = FALSE]

\* json.loads succeeds on the text of a JSON object, not on a fenced one.
json_loads_ok(text) == text.kind = "json" /\ ~text.fenced

\* validate_response with "content" left out of the required fields.
validate_response_content_optional(response) ==
    LET cleaned == clean_ai_response(response)
        d == cleaned.data
    IN  /\ json_loads_ok(cleaned)
        /\ d.type # "absent"
        /\ d.reason # "absent"
        /\ d.continue # "absent"
        /\ d.type \in {"command", "script"}
        /\ d.type = "script" =>
              /\ d.script_type # Absent
              /\ d.script_type \in {Bash, Python}
              /\ d.script_name # Absent

\* validate_response with "reason" left out of the required fields.
validate_response_reason_optional(response) ==
    LET cleaned == clean_ai_response(response)
        d == cleaned.data
    IN  /\ json_loads_ok(cleaned)
        /\ d.type # "absent"
        /\ d.content # Absent
        /\ d.continue # "absent"
        /\ d.type \in {"command", "script"}
        /\ d.type = "script" =>
              /\ d.script_type # Absent
              /\ d.script_type \in {Bash, Python}
              /\ d.script_name # Absent

validate_response(response) ==
    LET cleaned == clean_ai_response(response)
        d == cleaned.data
    IN  /\ json_loads_ok(cleaned)
        /\ d.type # "absent"
        /\ d.content # Absent
        /\ d.reason # "absent"
        /\ d.continue # "absent"
        /\ d.type \in {"command", "script"}
        /\ d.type = "script" =>
              /\ d.script_type # Absent
              /\ d.script_type \in {Bash, Python}
              /\ d.script_name # Absent

\* dict.get(key, default)
get(v, default) == IF v = Absent THEN default ELSE v

\* Python truth value of the "continue" field: False only for JSON false.
Truthy(v) == v # "false"

\* The flag read with the wrong key, so that the default is always taken.
should_continue_default(d) == Truthy("true")

\* data.get("continue", True)
should_continue(d) == Truthy(IF d.continue = "absent" THEN "true" ELSE d.continue)

(***************************************************************************)
(* State.                                                                  *)
(***************************************************************************)
VARIABLES
    pc,           \* position of PentestAutomation.run
    context,      \* self.context
    iteration,    \* self.iteration
    ai_response,  \* the reply of this turn's oracle call
    output,       \* the result text of this turn, None before there is one
    procs,        \* the processes started and not seen to end: nothing ends one
                  \* that is no longer waited for
    cur,          \* id of the process the program is waiting for, 0 when none
    outfiles,     \* command_outputs/: path -> ids of the processes whose output it holds
    scriptfiles,  \* scripts/: path -> [content, mode]
    outstanding,  \* oracle calls sent and not yet returned
    oracleCalls,  \* oracle calls made so far
    prompt,       \* the context given to the last oracle call
    runOutcome,   \* what run_command did in this turn
    filterOutcome,\* what the filter command of this turn did
    stopReason    \* why the loop left Running

vars == <<pc, context, iteration, ai_response, output, procs, cur, outfiles,
          scriptfiles, outstanding, oracleCalls, prompt, runOutcome, filterOutcome,
          stopReason>>

\* No reply has been received yet in this turn.
NoReply == [kind |-> "unset", fenced |-> FALSE, data |-> BaseCommand]

\* No filter command has been run in this turn.
NoFilterRun == [kind |-> "none", text |-> <<>>]

\* The decoded payload of this turn's reply.
data == clean_ai_response(ai_response).data

Path(dir, name) == dir \o <<"/">> \o name

\* open(path, 'w') raises when the path names a directory.
IsDirectoryPath(path) == basename(path) \in {<<>>, <<".">>, <<".", ".">>}

output_name_of(d) == sanitize_filename(get(d.output_name, DefaultOutputName))
script_name_of(d) == sanitize_filename(get(d.script_name, DefaultScriptName))
script_type_of(d) == LowerText(Strip(get(d.script_type, <<>>)))
return_to_ai_of(d) == get(d.return_to_ai, <<>>)
content_of(d) == StripSet(get(d.content, <<>>), {Backtick})

\* The file a path names for a process whose working directory is cwd
\* (empty: the working directory of the program itself).
Resolve(cwd, path) ==
    IF cwd = <<>> \/ (path # <<>> /\ path[1] = "/") THEN path ELSE Path(cwd, path)

\* The command line run_script builds.
script_cmd(script_type, script_path) ==
    (IF script_type = Python THEN Python3 ELSE Bash) \o <<" ">> \o script_path

\* The text returned when run_command reported failure.
ErrorText(d) ==
    IF d.type = "script" THEN ErrorExecutingScript \o script_name_of(d)
    ELSE ErrorExecutingCommand \o content_of(d)

\* The result text with the filtered output looked at before the flag.
ResultText_filter_first(d, filtered_output) ==
    IF filtered_output # <<>> THEN filtered_output
    ELSE IF ~should_continue(d) THEN StoppingAsRequested
    ELSE RawOutputSavedTo \o output_name_of(d) \o <<")">>

\* The text returned after a successful run: the tail of run_ai_command and
\* of run_script.
ResultText(d, filtered_output) ==
    IF ~should_continue(d) THEN StoppingAsRequested
    ELSE IF filtered_output # <<>> THEN filtered_output
    ELSE RawOutputSavedTo \o output_name_of(d) \o <<")">>

\* filter_output returning the error stream of a failed filter as it is.
filter_output_no_prefix(outcome) ==
    CASE outcome.kind = "exit0" -> outcome.text
      [] outcome.kind = "nonzero" -> outcome.text
      [] outcome.kind = "timeout" -> FilterTimedOut
      [] OTHER -> FilterError \o outcome.text

\* The text filter_output returns.
filter_output(outcome) ==
    CASE outcome.kind = "exit0" -> outcome.text
      [] outcome.kind = "nonzero" -> FilterError \o outcome.text
      [] outcome.kind = "timeout" -> FilterTimedOut
      [] OTHER -> FilterError \o outcome.text

\* The fold without the "\nLast command output: " marker.
Fold_no_marker(ctx, out) ==
    LET c == ctx \o out
    IN  IF Len(c) > ContextBudget THEN Tail_n(c, ContextBudget) ELSE c

\* The fold keeping the leading characters of an over-long context.
Fold_keep_head(ctx, out) ==
    LET c == ctx \o LastCommandOutput \o out
    IN  IF Len(c) > ContextBudget THEN Take(c, ContextBudget) ELSE c

\* The context after a turn's result is folded into it.
Fold(ctx, out) ==
    LET c == ctx \o LastCommandOutput \o out
    IN  IF Len(c) > ContextBudget THEN Tail_n(c, ContextBudget) ELSE c

Init ==
    /\ pc = "AwaitingTarget"
    /\ context = <<>>
    /\ iteration = 0
    /\ ai_response = NoReply
    /\ output = None
    /\ procs = {}
    /\ cur = 0
    /\ outfiles = [p \in {} |-> {}]
    /\ scriptfiles = [p \in {} |-> <<>>]
    /\ outstanding = 0
    /\ oracleCalls = 0
    /\ prompt = None
    /\ runOutcome = "none"
    /\ filterOutcome = NoFilterRun
    /\ stopReason = "none"

(***************************************************************************)
(* PentestAutomation.get_target_info and the entry of run.                 *)
(***************************************************************************)
GetTargetInfoFrom(guides) ==
    /\ pc = "AwaitingTarget"
    /\ \E target_in \in Targets, guide_in \in guides :
        LET target == Strip(target_in)
            guide == Strip(guide_in)
        IN  IF target = <<>>
            THEN /\ pc' = "Stopped"
                 /\ stopReason' = "no_target"
                 /\ UNCHANGED context
            ELSE /\ context' = TargetPrefix \o target \o GuidePrefix \o
                                 (IF guide # <<>> THEN guide ELSE NoGuidance)
                 /\ pc' = "Running"
                 /\ UNCHANGED stopReason
    /\ UNCHANGED <<filterOutcome, iteration, ai_response, output, procs, cur, outfiles, scriptfiles,
                   outstanding, oracleCalls, prompt, runOutcome>>

\* The operator's answers are short texts.
GetTargetInfo == GetTargetInfoFrom(Guides)

\* The operator's guidance is the long text.
GetTargetInfoLong == GetTargetInfoFrom({LongGuide})

(***************************************************************************)
(* PentestAutomation.run: the loop.                                        *)
(***************************************************************************)
\* The loop head without the increment of the counter.
EnterIteration_no_increment ==
    /\ pc = "Running"
    /\ iteration < max_iterations
    /\ pc' = "Sleeping"
    /\ UNCHANGED <<filterOutcome, context, iteration, ai_response, output, procs, cur, outfiles,
                   scriptfiles, outstanding, oracleCalls, prompt, runOutcome, stopReason>>

\* while self.iteration < self.max_iterations: self.iteration += 1; sleep
EnterIteration ==
    /\ pc = "Running"
    /\ iteration < max_iterations
    /\ iteration' = iteration + 1
    /\ pc' = "Sleeping"
    /\ UNCHANGED <<filterOutcome, context, ai_response, output, procs, cur, outfiles, scriptfiles,
                   outstanding, oracleCalls, prompt, runOutcome, stopReason>>

\* The loop condition is false: the loop ends.
ExitLoop ==
    /\ pc = "Running"
    /\ ~(iteration < max_iterations)
    /\ pc' = "Stopped"
    /\ stopReason' = "max_iterations"
    /\ UNCHANGED <<filterOutcome, context, iteration, ai_response, output, procs, cur, outfiles,
                   scriptfiles, outstanding, oracleCalls, prompt, runOutcome>>

\* ai_response = self.ai.chat(self.context): the call is sent.
CallOracle ==
    /\ pc = "Sleeping"
    /\ pc' = "AwaitingOracle"
    /\ outstanding' = outstanding + 1
    /\ oracleCalls' = oracleCalls + 1
    /\ prompt' = context
    /\ UNCHANGED <<filterOutcome, context, iteration, ai_response, output, procs, cur, outfiles,
                   scriptfiles, runOutcome, stopReason>>

\* The test written as "if ai_response is None".
EmptyReply_none_only(r) == r.kind = "none"

\* if not ai_response: continue
EmptyReply(r) == r.kind \in {"none", "empty"}

\* chat returns None or an empty text: the turn ends.
OracleSilent ==
    /\ pc = "AwaitingOracle"
    /\ \E r \in Replies :
        /\ EmptyReply(r)
        /\ ai_response' = r
    /\ outstanding' = outstanding - 1
    /\ pc' = "Running"
    /\ UNCHANGED <<filterOutcome, context, iteration, output, procs, cur, outfiles, scriptfiles,
                   oracleCalls, prompt, runOutcome, stopReason>>

\* chat returns a text: execute_ai_command is entered with it.
OracleReplies ==
    /\ pc = "AwaitingOracle"
    /\ \E r \in Replies :
        /\ ~EmptyReply(r)
        /\ ai_response' = r
    /\ outstanding' = outstanding - 1
    /\ pc' = "Execute"
    /\ UNCHANGED <<filterOutcome, context, iteration, output, procs, cur, outfiles, scriptfiles,
                   oracleCalls, prompt, runOutcome, stopReason>>

(***************************************************************************)
(* PentestAutomation.execute_ai_command, CommandExecutor.run_ai_command,   *)
(* CommandExecutor.run_script and CommandExecutor.run_command.             *)
(***************************************************************************)
\* execute_ai_command returns None: run logs the failure and breaks.
ReturnNone ==
    /\ output' = None
    /\ pc' = "Stopped"
    /\ stopReason' = "execution_failed"
    /\ UNCHANGED <<filterOutcome, context, iteration, ai_response, procs, cur, outfiles, scriptfiles,
                   outstanding, oracleCalls, prompt, runOutcome>>

\* validate_response rejects the reply.
DecodeFails ==
    /\ pc = "Execute"
    /\ ~validate_response(clean_ai_response(ai_response))
    /\ ReturnNone

\* An exception inside run_ai_command or run_script: str.strip on a content
\* that is not a string, or open() on a script path that names a directory.
Raises(d) ==
    \/ d.content = NonString
    \/ /\ d.type = "script"
       /\ \E script_path \in {Path(ScriptsDir, script_name_of(d))} :
             IsDirectoryPath(script_path)

ExecuteRaises ==
    /\ pc = "Execute"
    /\ validate_response(clean_ai_response(ai_response))
    /\ Raises(data)
    /\ ReturnNone

\* run_command returns False.
RunFailed(kind, errText) ==
    /\ runOutcome' = kind
    /\ output' = errText
    /\ pc' = "Executed"
    /\ UNCHANGED <<procs, cur>>

\* run_command after the denylist check: the output file is opened for
\* writing and the process is started.
open_and_spawn(command, output_path, cwd, errText) ==
    IF IsDirectoryPath(output_path)
    THEN RunFailed("open_error", errText) /\ UNCHANGED outfiles
    ELSE /\ outfiles' = [p \in DOMAIN outfiles \cup {output_path} |->
                            IF p = output_path THEN {} ELSE outfiles[p]]
         /\ \/ RunFailed("spawn_error", errText)
            \/ /\ shlex_split(command) # <<>>
               /\ procs' = procs \cup {[id |-> iteration, kind |-> "action",
                                        command |-> command,
                                        argv |-> shlex_split(command), cwd |-> cwd,
                                        out |-> output_path]}
               /\ cur' = iteration
               /\ runOutcome' = "running"
               /\ pc' = "Waiting"
               /\ UNCHANGED output

\* run_command without its denylist check.
run_command_unchecked(command, output_path, cwd, errText) ==
    open_and_spawn(command, output_path, cwd, errText)

\* run_command up to the start of process.wait.
run_command(command, output_path, cwd, errText) ==
    IF ~validate_command(command)
    THEN RunFailed("blocked", errText) /\ UNCHANGED outfiles
    ELSE open_and_spawn(command, output_path, cwd, errText)

\* run_ai_command, up to the wait for the process.
StartCommand ==
    /\ pc = "Execute"
    /\ validate_response(clean_ai_response(ai_response))
    /\ \E d \in {data} :
        /\ d.type = "command"
        /\ ~Raises(d)
        /\ \E command \in {content_of(d)} :
           \E output_name \in {output_name_of(d)} :
           \E output_path \in {Path(CommandOutputsDir, output_name)} :
              IF command = <<>>
              THEN /\ output' = NoCommandToExecute
                   /\ pc' = "Executed"
                   /\ UNCHANGED <<procs, cur, outfiles, runOutcome>>
              ELSE run_command(command, output_path, <<>>,
                               ErrorExecutingCommand \o command)
    /\ UNCHANGED <<filterOutcome, context, iteration, ai_response, scriptfiles, outstanding,
                   oracleCalls, prompt, stopReason>>

\* run_script, up to the wait for the process.
StartScript ==
    /\ pc = "Execute"
    /\ validate_response(clean_ai_response(ai_response))
    /\ \E d \in {data} :
        /\ d.type = "script"
        /\ d.content # NonString
        /\ \E script_content \in {content_of(d)} :
           \E output_name \in {output_name_of(d)} :
           \E script_name \in {script_name_of(d)} :
           \E script_type \in {script_type_of(d)} :
           \E script_path \in {Path(ScriptsDir, script_name)} :
           \E output_path \in {Path(CommandOutputsDir, output_name)} :
           \E mode \in {IF script_type = Bash THEN "0755"
                        ELSE IF script_path \in DOMAIN scriptfiles
                             THEN scriptfiles[script_path].mode
                             ELSE "default"} :
              /\ ~IsDirectoryPath(script_path)
              /\ scriptfiles' = [p \in DOMAIN scriptfiles \cup {script_path} |->
                                    IF p = script_path
                                    THEN [content |-> script_content, mode |-> mode]
                                    ELSE scriptfiles[p]]
              /\ IF script_type \notin {Python, Bash}
                 THEN /\ output' = UnsupportedScriptType \o script_type
                      /\ pc' = "Executed"
                      /\ UNCHANGED <<procs, cur, outfiles, runOutcome>>
                 ELSE run_command(script_cmd(script_type, script_path), output_path,
                                  ScriptsDir, ErrorExecutingScript \o script_name)
    /\ UNCHANGED <<filterOutcome, context, iteration, ai_response, outstanding, oracleCalls,
                   prompt, stopReason>>

\* process.wait returns in time: the process has exited and the file its
\* stdout was opened on holds its output; run_command returns True; the filter
\* command, when there is one, is started by subprocess.run.
WaitReturns ==
    /\ pc = "Waiting"
    /\ runOutcome' = "ok"
    /\ \E p \in {q \in procs : q.id = cur} :
          outfiles' = [outfiles EXCEPT ![p.out] = @ \cup {p.id}]
    /\ LET exited == {p \in procs : p.id # cur}
       IN  IF return_to_ai_of(data) # <<>>
           THEN /\ procs' = exited \cup {[id |-> iteration, kind |-> "filter",
                                          command |-> return_to_ai_of(data),
                                          argv |-> <<>>, cwd |-> CommandOutputsDir,
                                          out |-> <<>>]}
                /\ UNCHANGED cur
                /\ pc' = "Filtering"
                /\ UNCHANGED output
           ELSE /\ procs' = exited
                /\ cur' = 0
                /\ output' = ResultText(data, <<>>)
                /\ pc' = "Executed"
    /\ UNCHANGED <<filterOutcome, context, iteration, ai_response, scriptfiles, outstanding,
                   oracleCalls, prompt, stopReason>>

\* process.wait raises TimeoutExpired; run_command logs it and returns False.
\* Nothing stops the process: it is no longer waited for, and runs on.
WaitTimesOut ==
    /\ pc = "Waiting"
    /\ runOutcome' = "timeout"
    /\ cur' = 0
    /\ output' = ErrorText(data)
    /\ pc' = "Executed"
    /\ UNCHANGED <<filterOutcome, context, iteration, ai_response, procs, outfiles, scriptfiles,
                   outstanding, oracleCalls, prompt, stopReason>>

\* subprocess.run of the filter command ends (it kills the child on timeout);
\* filter_output returns its text and the result text is computed.
FilterReturns ==
    /\ pc = "Filtering"
    /\ \E outcome \in FilterOutcomes :
        /\ filterOutcome' = outcome
        /\ output' = ResultText(data, filter_output(outcome))
    /\ procs' = {p \in procs : p.id # cur}
    /\ cur' = 0
    /\ pc' = "Executed"
    /\ UNCHANGED <<context, iteration, ai_response, outfiles, scriptfiles, outstanding,
                   oracleCalls, prompt, runOutcome, stopReason>>

\* The flag checked after the context update instead of before it.
StopOnContinue_after_fold ==
    /\ pc = "Executed"
    /\ ~should_continue(data)
    /\ context' = Fold(context, output)
    /\ pc' = "Stopped"
    /\ stopReason' = "continue_false"
    /\ UNCHANGED <<filterOutcome, iteration, ai_response, output, procs, cur, outfiles,
                   scriptfiles, outstanding, oracleCalls, prompt, runOutcome>>

\* if not data.get("continue", True): break
StopOnContinue ==
    /\ pc = "Executed"
    /\ ~should_continue(data)
    /\ pc' = "Stopped"
    /\ stopReason' = "continue_false"
    /\ UNCHANGED <<filterOutcome, context, iteration, ai_response, output, procs, cur, outfiles,
                   scriptfiles, outstanding, oracleCalls, prompt, runOutcome>>

\* The context is updated for the next iteration.
FoldResult ==
    /\ pc = "Executed"
    /\ should_continue(data)
    /\ context' = Fold(context, output)
    /\ pc' = "Running"
    /\ ai_response' = NoReply
    /\ output' = None
    /\ runOutcome' = "none"
    /\ filterOutcome' = NoFilterRun
    /\ UNCHANGED <<iteration, procs, cur, outfiles, scriptfiles,
                   outstanding, oracleCalls, prompt, stopReason>>

(***************************************************************************)
(* The spawned processes.                                                  *)
(***************************************************************************)
\* A process that was left running after its wait timed out writes to the
\* file its stdout was opened on.
ProcWrite ==
    /\ \E p \in procs :
        /\ p.kind = "action"
        /\ p.id # cur
        /\ p.id \notin outfiles[p.out]
        /\ outfiles' = [outfiles EXCEPT ![p.out] = @ \cup {p.id}]
    /\ UNCHANGED <<filterOutcome, pc, context, iteration, ai_response, output, procs, cur, scriptfiles,
                   outstanding, oracleCalls, prompt, runOutcome, stopReason>>

LoopStep ==
    \/ GetTargetInfo
    \/ EnterIteration
    \/ ExitLoop
    \/ CallOracle
    \/ OracleSilent
    \/ OracleReplies
    \/ DecodeFails
    \/ ExecuteRaises
    \/ StartCommand
    \/ StartScript
    \/ WaitReturns
    \/ WaitTimesOut
    \/ FilterReturns
    \/ StopOnContinue
    \/ FoldResult

Next ==
    \/ GetTargetInfo
    \/ EnterIteration
    \/ ExitLoop
    \/ CallOracle
    \/ OracleSilent
    \/ OracleReplies
    \/ DecodeFails
    \/ ExecuteRaises
    \/ StartCommand
    \/ StartScript
    \/ WaitReturns
    \/ WaitTimesOut
    \/ FilterReturns
    \/ StopOnContinue
    \/ FoldResult
    \/ ProcWrite

Spec == Init /\ [][Next]_vars

\* The runs in which the operator gives the long guidance text.
NextLong ==
    \/ GetTargetInfoLong
    \/ EnterIteration
    \/ ExitLoop
    \/ CallOracle
    \/ OracleSilent
    \/ OracleReplies
    \/ DecodeFails
    \/ ExecuteRaises
    \/ StartCommand
    \/ StartScript
    \/ WaitReturns
    \/ WaitTimesOut
    \/ FilterReturns
    \/ StopOnContinue
    \/ FoldResult
    \/ ProcWrite

LongSpec == Init /\ [][NextLong]_vars

\* Every oracle call and every wait returns, and the program keeps running.
LiveSpec == Spec /\ WF_vars(LoopStep)

(***************************************************************************)
(* Properties.                                                             *)
(***************************************************************************)
\* suf is the end of s
EndsWith(s, suf) ==
    /\ Len(suf) <= Len(s)
    /\ SubSeq(s, Len(s) - Len(suf) + 1, Len(s)) = suf

\* run_command reported failure in this turn.
RunnerFailed == runOutcome \in {"blocked", "open_error", "spawn_error", "timeout"}

\* A process was started for the action of this turn.
ActionExecuted == runOutcome \in {"ok", "timeout"}

\* Stopped is final: no oracle call, no action, no change of the context.
StoppedIsFinal ==
    pc = "Stopped" =>
        /\ pc' = "Stopped"
        /\ oracleCalls' = oracleCalls
        /\ outstanding' = outstanding
        /\ context' = context
        /\ {<<p.id, p.kind>> : p \in procs'} \subseteq {<<p.id, p.kind>> : p \in procs}

\* C1: whenever the Sandbox Runner reports failure for the action of a turn
\* (blocked, spawn error or timeout), the loop moves to Stopped in that turn,
\* with the context left as it was.
C1_RunnerFailureStops ==
    [][(pc = "Executed" /\ RunnerFailed /\ pc' # pc) =>
            (pc' = "Stopped" /\ context' = context)]_vars

\* C2: no process is ever running that run_command started for a command
\* line the denylist matches.
C2_NoProcessForDeniedCommand ==
    \A p \in procs : p.kind = "action" => validate_command(p.command)

\* A command line that matches the denylist was refused and nothing runs.
C2_Witness ==
    /\ pc = "Executed"
    /\ runOutcome = "blocked"
    /\ ~validate_command(IF data.type = "script"
                         THEN script_cmd(script_type_of(data), Path(ScriptsDir, script_name_of(data)))
                         ELSE content_of(data))
    /\ procs = {}

\* C3: the result text surfaced for a blocked command differs from the text
\* the same action yields when it fails by spawn error or by timeout.
C3_BlockedTextIsDistinct ==
    (pc = "Executed" /\ runOutcome = "blocked") => output # ErrorText(data)

\* C4: after run_command has returned because of the timeout, the process
\* it started is no longer running.
C4_TimedOutProcessIsTerminated ==
    runOutcome = "timeout" => ~ \E p \in procs : p.kind = "action" /\ p.id = iteration

\* C5: at most one action process is alive and at most one oracle call is
\* outstanding, at every moment of a run.
C5_OneActionInFlight ==
    /\ Cardinality({p \in procs : p.kind = "action"}) <= 1
    /\ outstanding <= 1

\* C6: the loop reaches Stopped; the counter grows by exactly one per turn and
\* never exceeds max_iterations; one oracle call is made per turn, so that the
\* number of oracle calls equals the counter.
C6_LoopTerminatesWithinCap ==
    /\ <>(pc = "Stopped")
    /\ [](iteration <= max_iterations /\ oracleCalls <= max_iterations)
    /\ [](oracleCalls = IF pc = "Sleeping" THEN iteration - 1 ELSE iteration)
    /\ [][iteration' # iteration =>
            (pc = "Running" /\ pc' = "Sleeping" /\ iteration' = iteration + 1)]_vars
    /\ [][(pc = "Running" /\ pc' = "Sleeping") => iteration' = iteration + 1]_vars

\* The loop ran into the iteration cap.
C6_Witness ==
    /\ pc = "Stopped"
    /\ stopReason = "max_iterations"
    /\ iteration = max_iterations
    /\ oracleCalls = max_iterations

\* A reply that does not decode: malformed payload, missing required field,
\* invalid type or invalid script spec.
Undecodable(r) ==
    LET d == r.data
    IN  \/ r.kind # "json"
        \/ d.type = "absent" \/ d.content = Absent \/ d.reason = "absent" \/ d.continue = "absent"
        \/ d.type \notin {"command", "script"}
        \/ d.content = NonString
        \/ d.type = "script" /\ (d.script_type \notin {Bash, Python} \/ d.script_name \in {Absent, <<>>})

\* C7: when the reply fails to decode, the loop moves to Stopped in that turn:
\* no action is executed, no file is written, the context is unchanged and the
\* oracle is not called again.
C7_DecodeFailureStops ==
    /\ [][(pc = "Execute" /\ Undecodable(ai_response) /\ pc' # pc) =>
            /\ pc' = "Stopped"
            /\ context' = context
            /\ procs' = procs
            /\ outfiles' = outfiles
            /\ scriptfiles' = scriptfiles
            /\ oracleCalls' = oracleCalls]_vars
    /\ [][StoppedIsFinal]_vars

C7_Witness ==
    /\ pc = "Stopped"
    /\ stopReason = "execution_failed"
    /\ Undecodable(ai_response)
    /\ ai_response.data.content = Absent

\* C8: an empty or absent reply ends the turn without an action and with the
\* context unchanged; the counter has advanced by one for the turn; the loop
\* stays Running and, unless the counter has reached max_iterations, calls the
\* oracle again with the same context.
C8_SilentTurnIsRetried ==
    /\ [][(pc = "AwaitingOracle" /\ pc' # pc /\ ai_response'.kind \in {"none", "empty"}) =>
            /\ pc' = "Running"
            /\ context' = context
            /\ context' = prompt
            /\ iteration' = iteration
            /\ iteration = oracleCalls
            /\ procs' = procs
            /\ outfiles' = outfiles
            /\ scriptfiles' = scriptfiles]_vars
    /\ [][(pc = "Running" /\ ai_response.kind \in {"none", "empty"} /\ pc' # pc) =>
            IF iteration < max_iterations
            THEN pc' = "Sleeping" /\ iteration' = iteration + 1 /\ context' = context
            ELSE pc' = "Stopped"]_vars
    /\ [][(pc = "Sleeping" /\ ai_response.kind \in {"none", "empty"} /\ pc' # pc) =>
            pc' = "AwaitingOracle" /\ prompt' = prompt /\ context' = context]_vars

\* The oracle is called a second time, with the same context, after a turn
\* in which its reply was the empty text.
C8_Witness ==
    /\ pc = "AwaitingOracle"
    /\ ai_response.kind = "empty"
    /\ iteration = 2
    /\ prompt = context

\* C9: a turn whose action was executed and whose continue flag is false ends
\* in Stopped, and no oracle call follows; with the flag true the loop stays
\* Running, and goes on to the next turn unless the cap is reached.
C9_ContinueFlagDecides ==
    /\ [][(pc = "Executed" /\ ActionExecuted /\ pc' # pc) =>
            /\ data.continue = "false" => pc' = "Stopped"
            /\ data.continue = "true" => pc' = "Running"]_vars
    /\ [][(pc = "Running" /\ pc' # pc) =>
            IF iteration < max_iterations THEN pc' = "Sleeping" ELSE pc' = "Stopped"]_vars
    /\ [][StoppedIsFinal]_vars

C9_Witness ==
    /\ pc = "Stopped"
    /\ stopReason = "continue_false"
    /\ data.continue = "false"
    /\ runOutcome = "ok"

\* C10 as stated: the context of a run that stopped on continue = false ends
\* with the result of its last turn.
C10_FinalContextHasLastResult ==
    (pc = "Stopped" /\ stopReason = "continue_false") =>
        EndsWith(context, LastCommandOutput \o output)

\* C10 as amended: the flag is checked before the result is folded into the
\* context.  A turn whose flag is true appends "\nLast command output: " and
\* the result and keeps the last ContextBudget characters; a turn whose flag
\* is false stops the loop with the context as it was given to the oracle.
C10_FlagCheckedBeforeFold ==
    /\ [][(pc = "Executed" /\ pc' = "Running") =>
            LET c == context \o LastCommandOutput \o output
            IN  /\ data.continue # "false"
                /\ context' = IF Len(c) > ContextBudget
                              THEN SubSeq(c, Len(c) - ContextBudget + 1, Len(c))
                              ELSE c]_vars
    /\ [][(pc = "Executed" /\ pc' = "Stopped") =>
            data.continue = "false" /\ context' = context /\ context' = prompt]_vars
    /\ []((pc = "Stopped" /\ stopReason = "continue_false") => context = prompt)

\* The second turn stops on continue = false after the first was folded.
C10_Witness ==
    /\ pc = "Stopped"
    /\ stopReason = "continue_false"
    /\ ActionExecuted
    /\ iteration = 2
    /\ EndsWith(context, LastCommandOutput \o RawOutputSavedTo \o DefaultOutputName \o <<")">>)

\* C11: a fold appends "\nLast command output: " and the result to the
\* context; when that text is longer than ContextBudget the context becomes
\* exactly its last ContextBudget characters, otherwise the text as appended;
\* after a fold the context is never longer than ContextBudget.
C11_FoldKeepsTrailingBudget ==
    [][(pc = "Executed" /\ pc' = "Running") =>
          LET c == context \o LastCommandOutput \o output
          IN  /\ Len(context') <= ContextBudget
              /\ IF Len(c) > ContextBudget
                 THEN /\ Len(context') = ContextBudget
                      /\ \A i \in 1..ContextBudget :
                            context'[i] = c[Len(c) - ContextBudget + i]
                 ELSE context' = c]_vars

\* A fold has cut an over-long context: the target line at its head is gone
\* and the result of the turn is at its end.
C11_Witness ==
    /\ pc = "Running"
    /\ iteration = 1
    /\ Len(context) = ContextBudget
    /\ ~At(context, 1, TargetPrefix)
    /\ EndsWith(context, LastCommandOutput \o RawOutputSavedTo \o DefaultOutputName \o <<")">>)

\* C12: every context given to the oracle, the first one included, is at
\* most ContextBudget characters long.
C12_PromptWithinBudget ==
    prompt # None => Len(prompt) <= ContextBudget

\* The placeholder naming the raw output file of this turn.
Placeholder == RawOutputSavedTo \o output_name_of(data) \o <<")">>

\* C13 as stated: after a successful run the result text that is to be folded
\* into the context is the text the filter returned when a filter command was
\* supplied, and the placeholder when none was.
C13_ResultIsFilterTextOrPlaceholder ==
    (pc = "Executed" /\ runOutcome = "ok" /\ should_continue(data)) =>
        IF data.return_to_ai # Absent
        THEN output = filter_output(filterOutcome)
        ELSE output = Placeholder

\* C13 as amended: after a successful run the result text is "Stopping as
\* requested." when the continue flag is false; otherwise the text the filter
\* returned when a filter command was supplied and that text is not empty;
\* otherwise the placeholder.  It is one of these texts in every case, never
\* what the raw output file holds.
C13_ResultTextAfterSuccess ==
    (pc = "Executed" /\ runOutcome = "ok") =>
        LET filtered ==
                CASE filterOutcome.kind = "exit0" -> filterOutcome.text
                  [] filterOutcome.kind = "timeout" -> FilterTimedOut
                  [] filterOutcome.kind \in {"nonzero", "exception"} ->
                        FilterError \o filterOutcome.text
                  [] OTHER -> <<>>
        IN  /\ (data.return_to_ai = Absent) = (filterOutcome = NoFilterRun)
            /\ output = IF data.continue = "false" THEN StoppingAsRequested
                        ELSE IF data.return_to_ai # Absent /\ filtered # <<>>
                             THEN filtered
                             ELSE Placeholder

\* A filter command ran, printed nothing and ended with exit code 0: the
\* result text is the placeholder.
C13_Witness ==
    /\ pc = "Executed"
    /\ runOutcome = "ok"
    /\ data.return_to_ai # Absent
    /\ filterOutcome = [kind |-> "exit0", text |-> <<>>]
    /\ data.continue = "true"
    /\ output = Placeholder

\* The filter command of this turn failed: non-zero exit, timeout or exception.
FilterFailed == filterOutcome.kind \in {"nonzero", "timeout", "exception"}

\* C14: filter_output always returns a text: the turn goes on from Filtering
\* to Executed, never to Stopped.  For a filter that exits non-zero the text
\* is "Filter error: " and its error stream, for one that times out the text
\* is "Filter command timed out"; when the continue flag is true that text is
\* folded into the context and the loop stays Running.
C14_FilterFailureDegrades ==
    /\ [][(pc = "Filtering" /\ pc' # pc) =>
            (pc' = "Executed" /\ context' = context /\ filterOutcome' \in FilterOutcomes)]_vars
    /\ []((pc = "Executed" /\ data.continue = "true" /\ filterOutcome.kind = "nonzero") =>
            (At(output, 1, FilterError) /\ output = FilterError \o filterOutcome.text))
    /\ []((pc = "Executed" /\ data.continue = "true" /\ filterOutcome.kind = "timeout") =>
            output = FilterTimedOut)
    /\ [][(pc = "Executed" /\ data.continue = "true" /\ FilterFailed /\ pc' # pc) =>
            (pc' = "Running" /\ EndsWith(context', LastCommandOutput \o output))]_vars

\* The diagnostic of a filter that exited non-zero was folded into the
\* context and the loop is Running.
C14_Witness ==
    /\ pc = "Running"
    /\ iteration = 1
    /\ EndsWith(context, LastCommandOutput \o FilterError \o <<"e">>)

\* The name is one of a file directly inside a directory.
NameOfFileInside(name) ==
    /\ name \notin {<<>>, <<".">>, DotDot}
    /\ \A i \in DOMAIN name : name[i] # "/"

\* C15: for every decoded action the sanitized output name, and for a script
\* action the sanitized script name, has no path separator and is not empty,
\* "." or "..".
C15_PathsInsideTheirDirectory ==
    (pc = "Execute" /\ validate_response(ai_response) /\ data.content # NonString) =>
        /\ NameOfFileInside(output_name_of(data))
        /\ data.type = "script" => NameOfFileInside(script_name_of(data))

\* The characters of [A-Za-z0-9._-].
PlainChars == Range(Lowers) \cup Range(Uppers) \cup Digits \cup {".", "_", "-"}

\* C16: the names sanitize_filename returns have no path separator, only
\* characters of [A-Za-z0-9._-], and at most 100 characters.
C16_SanitizedNameIsPlain ==
    (pc = "Execute" /\ validate_response(ai_response) /\ data.content # NonString) =>
        \A name \in {output_name_of(data), script_name_of(data)} :
            /\ \A i \in DOMAIN name : name[i] \in PlainChars /\ name[i] \notin {"/", "\\"}
            /\ Len(name) <= 100

\* C17: the interpreter started for a script action is given, as its second
\* word, a path that names, from the working directory it is started in, the
\* file the script was written to.
C17_InterpreterRunsMaterializedScript ==
    (pc = "Waiting" /\ data.type = "script") =>
        \A p \in procs : p.id = cur =>
            /\ Len(p.argv) = 2
            /\ Resolve(p.cwd, p.argv[2]) = Path(ScriptsDir, script_name_of(data))
            /\ Resolve(p.cwd, p.argv[2]) \in DOMAIN scriptfiles

\* A required field is absent from the payload, or its type is not one of
\* command and script.
LacksRequiredField(d) ==
    \/ d.type = "absent" \/ d.content = Absent \/ d.reason = "absent" \/ d.continue = "absent"
    \/ d.type \notin {"command", "script"}

\* C18: a payload that lacks one of type, content, reason and continue, or
\* whose type is neither command nor script, is rejected: the loop stops and
\* nothing is executed or written.  The minimal command payload is accepted,
\* fenced or not, and run_command is given its content as the command line.
C18_DecodeChecksRequiredFields ==
    /\ [][(pc = "Execute" /\ ai_response.kind = "json" /\ LacksRequiredField(ai_response.data)
            /\ pc' # pc) =>
              /\ pc' = "Stopped"
              /\ stopReason' = "execution_failed"
              /\ procs' = procs
              /\ outfiles' = outfiles
              /\ scriptfiles' = scriptfiles]_vars
    /\ [][(pc = "Execute" /\ ai_response.kind = "json" /\ ai_response.data = BaseCommand
            /\ pc' # pc) =>
              \/ /\ pc' = "Waiting"
                 /\ \E p \in procs' :
                      /\ p.id = cur'
                      /\ p.command = BaseCommand.content
                      /\ p.argv = <<BaseCommand.content>>
                      /\ p.out = Path(CommandOutputsDir, DefaultOutputName)
              \/ /\ pc' = "Executed"
                 /\ runOutcome' = "spawn_error"
                 /\ output' = ErrorExecutingCommand \o BaseCommand.content]_vars

\* The minimal command payload, sent inside a code fence, is being executed.
C18_Witness ==
    /\ pc = "Waiting"
    /\ ai_response.fenced
    /\ ai_response.data = BaseCommand
    /\ \E p \in procs : p.id = cur /\ p.command = BaseCommand.content

\* C19: a script payload whose script_type is not bash or python, or whose
\* script_name is absent or empty, is rejected by validate_response, so that
\* run_script is never entered with it.
C19_DecodeRejectsBadScriptSpec ==
    (pc = "Execute" /\ ai_response.kind = "json" /\ ai_response.data.type = "script"
     /\ (\/ ai_response.data.script_type \notin {Bash, Python}
         \/ ai_response.data.script_name \in {Absent, <<>>})) =>
        ~validate_response(ai_response)

\* C20: the file written for a script action holds the content field of the
\* payload, character for character.
C20_ScriptFileHoldsBody ==
    (pc \in {"Waiting", "Filtering", "Executed"} /\ data.type = "script") =>
        /\ Path(ScriptsDir, script_name_of(data)) \in DOMAIN scriptfiles
        /\ scriptfiles[Path(ScriptsDir, script_name_of(data))].content = data.content

\* The raw output path of this turn.
OutputPath == Path(CommandOutputsDir, output_name_of(data))

\* C21: when run_command has returned after a normal exit, after a timeout
\* or after refusing a command the denylist matches, a file exists at the
\* output path and holds the output of no other process than the one of this
\* call.
C21_OutputFileHoldsThisCall ==
    (pc = "Executed" /\ runOutcome \in {"ok", "timeout", "blocked"}) =>
        /\ OutputPath \in DOMAIN outfiles
        /\ outfiles[OutputPath] \subseteq {iteration}

\* The first reply is a command action without filter command and with
\* continue = true.
PlainFirstCommand ==
    /\ iteration = 1
    /\ ai_response.kind = "json"
    /\ data.type = "command"
    /\ data.return_to_ai = Absent
    /\ data.continue = "true"

\* C22: in the first turn, for a command action without filter command and
\* with continue = true: one process is started for the command, with the raw
\* output file created; when it has ended the result text is the placeholder
\* "(Raw output saved to <name>)"; the turn leaves the loop Running with the
\* counter at 1, one oracle call made, and the context equal to the initial
\* context followed by "\nLast command output: " and the placeholder.
C22_FirstTurnEndToEnd ==
    /\ []((pc = "Waiting" /\ PlainFirstCommand) =>
            /\ Cardinality(procs) = 1
            /\ \A p \in procs : p.id = 1 /\ p.command = content_of(data) /\ p.out = OutputPath
            /\ OutputPath \in DOMAIN outfiles
            /\ oracleCalls = 1)
    /\ []((pc = "Executed" /\ PlainFirstCommand /\ runOutcome = "ok") =>
            /\ output = RawOutputSavedTo \o output_name_of(data) \o <<")">>
            /\ procs = {}
            /\ outfiles[OutputPath] = {1}
            /\ context = prompt
            /\ \E t \in Targets, g \in {NoGuidance} \cup Guides \cup {LongGuide} :
                  t # <<>> /\ g # <<>> /\ context = TargetPrefix \o t \o GuidePrefix \o g)
    /\ [][(pc = "Executed" /\ PlainFirstCommand /\ runOutcome = "ok" /\ pc' # pc) =>
            /\ pc' = "Running"
            /\ iteration' = 1
            /\ oracleCalls' = 1
            /\ Len(context \o LastCommandOutput \o output) <= ContextBudget =>
                  context' = context \o LastCommandOutput \o RawOutputSavedTo
                                 \o output_name_of(data) \o <<")">>]_vars

\* The first turn ran "ls" for target "t": the context is the initial context
\* and one placeholder line, and the counter is 1.
C22_Witness ==
    /\ pc = "Running"
    /\ iteration = 1
    /\ oracleCalls = 1
    /\ procs = {}
    /\ Path(CommandOutputsDir, DefaultOutputName) \in DOMAIN outfiles
    /\ context = TargetPrefix \o <<"t">> \o GuidePrefix \o NoGuidance \o LastCommandOutput
                    \o RawOutputSavedTo \o DefaultOutputName \o <<")">>

\* C23: every process was started for a text the denylist does not match:
\* the command line of a command action, the body of a script action and the
\* filter command given to the shell.
C23_EveryExecutedTextPassedDenylist ==
    /\ \A p \in procs : validate_command(p.command)
    /\ (pc = "Waiting" /\ data.type = "script") => validate_command(content_of(data))

\* C24: a turn whose reply has continue given as the string "false" ends in
\* Stopped, as one whose reply has the JSON value false does.
C24_StringFalseStops ==
    [][(pc = "Executed" /\ data.continue \in {"false", "str_false"} /\ pc' # pc) =>
            pc' = "Stopped"]_vars

====
